---- MODULE Spec2Model ----
(***************************************************************************)
(* Model of csdat_terrain_editor.py: the sector codec                      *)
(* (load_single_sector / write_sector_to_file), the mosaic assembler       *)
(* (create_combined_heightmap and the export split), the normaliser        *)
(* (numpy_to_blender_image / the export denormalisation) and the session   *)
(* object terrain_data driven by the import and export operators.          *)
(*                                                                         *)
(* Numbers.  Heights and pixels are floats in the program: float64 in     *)
(* the arrays and the arithmetic, float32 in the pixel array of the image. *)
(* The model holds every float as the number it is and rounds after each   *)
(* operation as the program's arithmetic does.                             *)
(*                                                                         *)
(* Bytes.  A file is a record [exists, bytes]; bytes is a sequence over    *)
(* 0..255 and the byte at file offset o is bytes[o + 1].                   *)
(*                                                                         *)
(* Arrays.  A 2-D numpy array is a sequence of rows, each a sequence.      *)
(***************************************************************************)
EXTENDS Integers, Sequences, FiniteSets

\* ---------------------------------------------------------------- bounds

\* terrain_data.grid_size and the default grid_size of the codec functions
\* are 65 in the program; the model runs the same code on a smaller grid.
GridSize == 2
\* sectors_x and sectors_y range over 1..100 in the program.
MaxSectors == 2
\* The operators run in one session.
MaxSteps == 3
\* The painted pixel lies in the first PaintSpan rows and columns.
PaintSpan == 1
\* Largest grid size the codec functions are applied to on their own.
MaxCodecGrid == 2

\* ------------------------------------------------------ program constants

TerrainOffset == 708
ReadLimit == 16900
HeightScale == 128
MaxSample == 65535

\* ---------------------------------------------------------------- numbers

PyMin(a, b) == IF b < a THEN b ELSE a
PyMax(a, b) == IF b > a THEN b ELSE a

\* A natural number of any size is the sequence of its digits in base 2^12,
\* lowest digit first, without a zero as its highest digit; <<>> is 0.
LimbBits == 12
LimbBase == 4096

RECURSIVE Pow2(_)
Pow2(k) == IF k = 0 THEN 1 ELSE 2 * Pow2(k - 1)

RECURSIVE BitLen(_)
BitLen(n) == IF n = 0 THEN 0 ELSE 1 + BitLen(n \div 2)

RECURSIVE TrailingZeros(_)
TrailingZeros(n) == IF n % 2 = 1 THEN 0 ELSE 1 + TrailingZeros(n \div 2)

RECURSIVE BigNorm(_)
BigNorm(a) ==
    IF a = <<>> \/ a[Len(a)] # 0 THEN a ELSE BigNorm(SubSeq(a, 1, Len(a) - 1))

RECURSIVE BigFromNat(_)
BigFromNat(n) ==
    IF n = 0 THEN <<>> ELSE <<n % LimbBase>> \o BigFromNat(n \div LimbBase)

\* The value of a number below 2^31.
RECURSIVE BigToNat(_)
BigToNat(a) == IF a = <<>> THEN 0 ELSE a[1] + LimbBase * BigToNat(Tail(a))

BigBitLen(a) ==
    IF a = <<>> THEN 0 ELSE LimbBits * (Len(a) - 1) + BitLen(a[Len(a)])

BigIsOdd(a) == a # <<>> /\ a[1] % 2 = 1

\* -1, 0 or 1 as a is below, equal to or above b.
BigCmp(a, b) ==
    IF Len(a) # Len(b) THEN (IF Len(a) < Len(b) THEN -1 ELSE 1)
    ELSE IF a = b THEN 0
    ELSE LET i == CHOOSE k \in 1..Len(a) :
                      a[k] # b[k] /\ \A j \in (k + 1)..Len(a) : a[j] = b[j]
         IN  IF a[i] < b[i] THEN -1 ELSE 1

\* a + b + c for a carry c.
RECURSIVE BigAddC(_, _, _)
BigAddC(a, b, c) ==
    IF a = <<>> /\ b = <<>> THEN BigFromNat(c)
    ELSE LET x == IF a = <<>> THEN 0 ELSE Head(a)
             y == IF b = <<>> THEN 0 ELSE Head(b)
             t == x + y + c
         IN  <<t % LimbBase>> \o BigAddC(IF a = <<>> THEN <<>> ELSE Tail(a),
                                         IF b = <<>> THEN <<>> ELSE Tail(b),
                                         t \div LimbBase)

BigAdd(a, b) == BigAddC(a, b, 0)

\* a - b - c for a borrow c, where a >= b + c.
RECURSIVE BigSubB(_, _, _)
BigSubB(a, b, c) ==
    IF a = <<>> THEN <<>>
    ELSE LET y == IF b = <<>> THEN 0 ELSE Head(b)
             t == Head(a) - y - c
         IN  <<IF t < 0 THEN t + LimbBase ELSE t>>
             \o BigSubB(Tail(a), IF b = <<>> THEN <<>> ELSE Tail(b),
                        IF t < 0 THEN 1 ELSE 0)

BigSub(a, b) == BigNorm(BigSubB(a, b, 0))

\* a * d + c for a factor d below 2^18.
RECURSIVE BigMulSmallC(_, _, _)
BigMulSmallC(a, d, c) ==
    IF a = <<>> THEN BigFromNat(c)
    ELSE LET t == Head(a) * d + c
         IN  <<t % LimbBase>> \o BigMulSmallC(Tail(a), d, t \div LimbBase)

BigMulSmall(a, d) == IF d = 0 THEN <<>> ELSE BigMulSmallC(a, d, 0)

\* a * 2^(12 n)
BigShiftLimbs(a, n) == IF a = <<>> THEN <<>> ELSE [i \in 1..n |-> 0] \o a

RECURSIVE BigMul(_, _)
BigMul(a, b) ==
    IF b = <<>> THEN <<>>
    ELSE BigAdd(BigMulSmall(a, Head(b)), BigShiftLimbs(BigMul(a, Tail(b)), 1))

\* a * 2^k
BigShl(a, k) == BigShiftLimbs(BigMulSmall(a, Pow2(k % LimbBits)), k \div LimbBits)

\* Quotient (its digits, a highest zero kept) and remainder of a by d, for a
\* divisor d below 2^18.
RECURSIVE BigDivRem(_, _)
BigDivRem(a, d) ==
    IF a = <<>> THEN [quot |-> <<>>, rem |-> 0]
    ELSE LET hi == BigDivRem(Tail(a), d)
             cur == hi.rem * LimbBase + Head(a)
         IN  [quot |-> <<cur \div d>> \o hi.quot, rem |-> cur % d]

\* floor(a / 2^k)
BigShr(a, k) ==
    LET n == k \div LimbBits
    IN  IF n >= Len(a) THEN <<>>
        ELSE BigNorm(BigDivRem(SubSeq(a, n + 1, Len(a)), Pow2(k % LimbBits)).quot)

RECURSIVE ZeroLimbs(_)
ZeroLimbs(a) == IF a = <<>> \/ Head(a) # 0 THEN 0 ELSE 1 + ZeroLimbs(Tail(a))

\* A float of the program is the number it holds: a record [neg, man, exp]
\* for (-1)^neg * man * 2^exp with man odd, or man = 0 and exp = 0.  The
\* program's values stay far from the ends of the exponent range, and the
\* sign of a zero decides nothing in it.
FloatZero == [neg |-> FALSE, man |-> <<>>, exp |-> 0]

Float(neg, man, exp) ==
    IF man = <<>> THEN FloatZero
    ELSE LET z == ZeroLimbs(man)
             low == SubSeq(man, z + 1, Len(man))
             t == TrailingZeros(low[1])
         IN  [neg |-> neg, man |-> BigShr(low, t), exp |-> exp + LimbBits * z + t]

\* n * 2^e for an integer n.
Dyadic(n, e) == Float(n < 0, BigFromNat(IF n < 0 THEN -n ELSE n), e)

\* float(n) of an int.
FloatOfInt(n) == Dyadic(n, 0)

\* Rounding to the nearest number of prec significant bits, ties to even.
RoundTo(x, prec) ==
    LET k == BigBitLen(x.man) - prec
    IN  IF k <= 0 THEN x
        ELSE LET q == BigShr(x.man, k)
                 c == BigCmp(BigSub(x.man, BigShl(q, k)), BigShl(<<1>>, k - 1))
                 up == c = 1 \/ (c = 0 /\ BigIsOdd(q))
             IN  Float(x.neg, IF up THEN BigAdd(q, <<1>>) ELSE q, x.exp + k)

FNeg(x) == Float(~x.neg, x.man, x.exp)

\* The exact sum.
ExactAdd(x, y) ==
    LET e == PyMin(x.exp, y.exp)
        a == BigShl(x.man, x.exp - e)
        b == BigShl(y.man, y.exp - e)
        c == BigCmp(a, b)
    IN  IF x.neg = y.neg THEN Float(x.neg, BigAdd(a, b), e)
        ELSE IF c = 0 THEN FloatZero
        ELSE IF c = 1 THEN Float(x.neg, BigSub(a, b), e)
        ELSE Float(y.neg, BigSub(b, a), e)

\* The exact product.
ExactMul(x, y) == Float(x.neg # y.neg, BigMul(x.man, y.man), x.exp + y.exp)

\* x < y
FLess(x, y) ==
    IF x.neg # y.neg THEN x.neg
    ELSE IF x.man = <<>> \/ y.man = <<>>
         THEN (IF x.man = <<>> THEN y.man # <<>> /\ ~y.neg ELSE x.neg)
    ELSE LET tx == BigBitLen(x.man) + x.exp
             ty == BigBitLen(y.man) + y.exp
         IN  IF tx # ty THEN (tx < ty) # x.neg
             ELSE ExactAdd(x, FNeg(y)).neg

\* float64 arithmetic: the exact result rounded to 53 bits.
F64Add(x, y) == RoundTo(ExactAdd(x, y), 53)
F64Sub(x, y) == RoundTo(ExactAdd(x, FNeg(y)), 53)
F64Mul(x, y) == RoundTo(ExactMul(x, y), 53)

\* float64 division.  The quotient of the mantissas is taken to 55 bits or
\* more and a last bit records a remainder, which rounds as the exact
\* quotient does.  The divisors of the program are 128 and a difference of
\* two decoded heights: their mantissas are below 2^16.
F64Div(x, y) ==
    IF x.man = <<>> THEN FloatZero
    ELSE IF y.man = <<1>> THEN RoundTo(Float(x.neg # y.neg, x.man, x.exp - y.exp), 53)
    ELSE LET t == PyMax(0, 55 + BigBitLen(y.man) - BigBitLen(x.man))
             qr == BigDivRem(BigShl(x.man, t), BigToNat(y.man))
             sticky == IF qr.rem = 0 THEN 0 ELSE 1
         IN  RoundTo(Float(x.neg # y.neg,
                           BigAddC(BigMulSmall(BigNorm(qr.quot), 2), <<>>, sticky),
                           x.exp - y.exp - t - 1), 53)

\* A float64 stored in a float32 array.
F32(x) == RoundTo(x, 24)

\* Python's int() of a float, truncation toward zero: [neg, mag].
PyInt(x) ==
    [neg |-> x.neg,
     mag |-> IF x.exp >= 0 THEN BigShl(x.man, x.exp) ELSE BigShr(x.man, -x.exp)]

\* max(0, min(limit, n)) of an int n = [neg, mag], for a limit below 2^31.
Clamp(n, limit) ==
    IF n.neg THEN 0
    ELSE IF BigBitLen(n.mag) > BitLen(limit) THEN limit
    ELSE PyMin(limit, BigToNat(n.mag))

\* min() and max() of a non-empty collection of floats.
RMin(S) == CHOOSE m \in S : \A z \in S : ~FLess(z, m)
RMax(S) == CHOOSE m \in S : \A z \in S : ~FLess(m, z)

\* ----------------------------------------------------------------- arrays

\* The values of an array (of ndarray.flatten(), of np.min and np.max): min
\* and max do not depend on their order.
Cells(m) == UNION {{m[i][j] : j \in 1..Len(m[i])} : i \in 1..Len(m)}

NRows(m) == Len(m)
NCols(m) == IF Len(m) = 0 THEN 0 ELSE Len(m[1])

\* np.flipud: the rows in reverse order.
FlipUD(m) == [i \in 1..Len(m) |-> m[Len(m) + 1 - i]]

\* np.fliplr: every row reversed.
FlipLR(m) == [i \in 1..Len(m) |-> [j \in 1..Len(m[i]) |-> m[i][Len(m[i]) + 1 - j]]]

\* np.rot90(m, k=1): counter-clockwise; an H x W array becomes W x H.
Rot90CCW(m) ==
    LET H == NRows(m)
        W == NCols(m)
    IN  [i \in 1..W |-> [j \in 1..H |-> m[j][W + 1 - i]]]

\* np.rot90(m, k=-1): clockwise; an H x W array becomes W x H.
Rot90CW(m) ==
    LET H == NRows(m)
        W == NCols(m)
    IN  [i \in 1..W |-> [j \in 1..H |-> m[H + 1 - j][i]]]

\* m[y0:y1, x0:x1] with Python's clipping of a slice to the array's bounds
\* (0-based, end exclusive).
Slice2D(m, y0, y1, x0, x1) ==
    LET ya == PyMin(y0, NRows(m))
        yb == PyMin(y1, NRows(m))
        xa == PyMin(x0, NCols(m))
        xb == PyMin(x1, NCols(m))
    IN  [i \in 1..(yb - ya) |-> [j \in 1..(xb - xa) |-> m[ya + i][xa + j]]]

\* ------------------------------------------------------------------ bytes

NoFile == [exists |-> FALSE, bytes |-> <<>>]
File(b) == [exists |-> TRUE, bytes |-> b]

\* int.from_bytes(data, 'little') of a 2-byte string.
FromBytesLittle(data) == data[1] + 256 * data[2]

\* value.to_bytes(2, 'little') of a value in 0..65535.
ToBytesLittle(v) == <<v % 256, v \div 256>>

\* bytes[a:b] (0-based, end exclusive, clipped).
ByteSlice(b, lo, hi) ==
    LET a == PyMin(lo, Len(b))
        z == PyMin(hi, Len(b))
    IN  IF z <= a THEN <<>> ELSE SubSeq(b, a + 1, z)

\* bytearray slice assignment content[pos:pos+2] = two: the slice is clipped
\* to the array, so past the end the two bytes are appended.
SliceAssign(content, pos, two) ==
    ByteSlice(content, 0, pos) \o two \o ByteSlice(content, pos + 2, Len(content))

\* ------------------------------------------------------------ SectorCodec

\* BytesIO.read(n) at stream position pos: up to n bytes, fewer at the end.
StreamRead(buf, pos, n) == ByteSlice(buf, pos, pos + n)

\* f.seek(708); f.read(16900): the bytes the decoder sees.
TerrainBytes(bytes) == ByteSlice(bytes, TerrainOffset, TerrainOffset + ReadLimit)

\* The inner loop of load_single_sector over x: a short read ends the row;
\* a full read decodes a height and skips two bytes.
RECURSIVE ReadRow(_, _, _, _, _)
ReadRow(buf, pos, x, grid_size, row) ==
    IF x = grid_size THEN [row |-> row, pos |-> pos]
    ELSE LET data == StreamRead(buf, pos, 2)
             pos1 == pos + Len(data)
         IN  IF Len(data) < 2 THEN [row |-> row, pos |-> pos1]
             ELSE LET height == F64Div(FloatOfInt(FromBytesLittle(data)), FloatOfInt(HeightScale))
                      pos2 == pos1 + Len(StreamRead(buf, pos1, 2))
                  IN  ReadRow(buf, pos2, x + 1, grid_size, Append(row, height))

\* The outer loop of load_single_sector over y: height_map[y] = row.
RECURSIVE ReadRows(_, _, _, _, _)
ReadRows(buf, pos, y, grid_size, height_map) ==
    IF y = grid_size THEN height_map
    ELSE LET r == ReadRow(buf, pos, 0, grid_size, <<>>)
         IN  ReadRows(buf, r.pos, y + 1, grid_size, Append(height_map, r.row))

\* np.array(list of rows) raises ValueError unless all rows have one length.
\* This is numpy from 1.24 on, which the model takes as the library; older
\* releases return a 1-D array of lists with a deprecation warning instead.
Homogeneous(rows) == \A i \in 1..Len(rows) : Len(rows[i]) = Len(rows[1])

\* load_single_sector: ok = FALSE stands for the None it returns when
\* anything raised (the file cannot be opened, the rows are ragged).
load_single_sector(file, grid_size) ==
    IF ~file.exists THEN [ok |-> FALSE, array |-> <<>>]
    ELSE LET height_map == ReadRows(TerrainBytes(file.bytes), 0, 0, grid_size, <<>>)
         IN  IF Homogeneous(height_map)
             THEN [ok |-> TRUE, array |-> height_map]
             ELSE [ok |-> FALSE, array |-> <<>>]

\* int(height * 128), then max(0, min(65535, .)).
HeightValue(height) ==
    Clamp(PyInt(F64Mul(height, FloatOfInt(HeightScale))), MaxSample)

\* CellPos pointing at the cell's payload bytes instead of its sample.
CellPosOnPayload(y, x, grid_size) == TerrainOffset + (y * grid_size + x) * 4 + 2

\* pos = terrain_offset + (y * grid_size + x) * 4
CellPos(y, x, grid_size) == TerrainOffset + (y * grid_size + x) * 4

\* The loops of write_sector_to_file over y and x, cell k = y * grid_size + x.
\* Indexing the array outside its shape raises IndexError (ok = FALSE).
RECURSIVE WriteCells(_, _, _, _)
WriteCells(file_content, flipped, k, grid_size) ==
    IF k = grid_size * grid_size THEN [ok |-> TRUE, content |-> file_content]
    ELSE LET y == k \div grid_size
             x == k % grid_size
         IN  IF y >= NRows(flipped) \/ x >= Len(flipped[y + 1])
             THEN [ok |-> FALSE, content |-> file_content]
             ELSE WriteCells(
                      SliceAssign(file_content, CellPos(y, x, grid_size),
                                  ToBytesLittle(HeightValue(flipped[y + 1][x + 1]))),
                      flipped, k + 1, grid_size)

\* height_data_flipped = np.flipud(height_data): the writer's vertical flip.
WriterRows(height_data) == FlipUD(height_data)

\* write_sector_to_file: the file is rewritten only after every cell is set;
\* any exception returns False and leaves the file as it was.
write_sector_to_file(file, height_data, grid_size) ==
    IF ~file.exists THEN [ok |-> FALSE, file |-> file]
    ELSE LET r == WriteCells(file.bytes, WriterRows(height_data), 0, grid_size)
         IN  IF r.ok THEN [ok |-> TRUE, file |-> File(r.content)]
             ELSE [ok |-> FALSE, file |-> file]

\* -------------------------------------------------------- SectorDirectory

\* A file name sd<tag>.csdat is its tag, filename[2:-6]: a sequence of
\* characters, each its Unicode code point.
CharZero == 48
CharPlus == 43
CharMinus == 45
CharUnderscore == 95
CharSpace == 32
CharX == 120
CharArabicZero == 1632
CharStar == 42
CharQuestion == 63
CharLBracket == 91
CharRBracket == 93
CharBang == 33
CharDot == 46
CharA == 97
CharB == 98

\* The characters int() strips at both ends of the string.  The separators
\* U+001C..U+001F are not among them: int() raises ValueError on them.
Whitespace ==
    (9..13) \cup {CharSpace, 133, 160, 5760} \cup (8192..8202)
    \cup {8232, 8233, 8239, 8287, 12288}

\* int() reads a decimal digit of any script as its value.  These are the
\* zeros of the decimal digit ranges of Unicode 14, the character database
\* of CPython 3.11; each range is its zero and the nine code points after it.
DecimalZeros ==
    {CharZero, CharArabicZero, 1776, 1984, 2406, 2534, 2662, 2790, 2918, 3046,
     3174, 3302, 3430, 3558, 3664, 3792, 3872, 4160, 4240, 6112, 6160, 6470,
     6608, 6784, 6800, 6992, 7088, 7232, 7248, 42528, 43216, 43264, 43472,
     43504, 43600, 44016, 65296, 66720, 68912, 69734, 69872, 69942, 70096,
     70384, 70736, 70864, 71248, 71360, 71472, 71904, 72016, 72784, 73040,
     73120, 92768, 92864, 93008, 120782, 120792, 120802, 120812, 120822,
     123200, 123632, 125264, 130032}

IsDigit(c) == \E z \in DecimalZeros : c \in z..(z + 9)
DigitValue(c) == c - (CHOOSE z \in DecimalZeros : c \in z..(z + 9))

RECURSIVE StripLeft(_)
StripLeft(tag) ==
    IF tag # <<>> /\ Head(tag) \in Whitespace THEN StripLeft(Tail(tag)) ELSE tag

RECURSIVE StripRight(_)
StripRight(tag) ==
    IF tag # <<>> /\ tag[Len(tag)] \in Whitespace
    THEN StripRight(SubSeq(tag, 1, Len(tag) - 1)) ELSE tag

\* The value of a digit string with its underscores passed over.
RECURSIVE DigitsValue(_, _)
DigitsValue(tag, acc) ==
    IF tag = <<>> THEN acc
    ELSE IF Head(tag) = CharUnderscore THEN DigitsValue(Tail(tag), acc)
    ELSE DigitsValue(Tail(tag), 10 * acc + DigitValue(Head(tag)))

\* int(filename[2:-6]): whitespace at both ends is dropped, one sign may
\* lead, and the rest is decimal digits with single underscores between
\* digits; anything else is a ValueError (ok = FALSE).
ParseInt(tag) ==
    LET stripped == StripRight(StripLeft(tag))
        signed == stripped # <<>> /\ Head(stripped) \in {CharPlus, CharMinus}
        body == IF signed THEN Tail(stripped) ELSE stripped
        wellformed ==
            /\ body # <<>>
            /\ \A i \in 1..Len(body) :
                  \/ IsDigit(body[i])
                  \/ /\ body[i] = CharUnderscore
                     /\ 1 < i /\ i < Len(body)
                     /\ IsDigit(body[i - 1]) /\ IsDigit(body[i + 1])
        magnitude == DigitsValue(body, 0)
    IN  IF wellformed
        THEN [ok |-> TRUE,
              value |-> IF signed /\ Head(stripped) = CharMinus THEN -magnitude
                        ELSE magnitude]
        ELSE [ok |-> FALSE, value |-> 0]

\* f"{sector_index}": the decimal digits of a natural number.
RECURSIVE Digits(_)
Digits(n) ==
    IF n < 10 THEN <<CharZero + n>> ELSE Append(Digits(n \div 10), CharZero + (n % 10))

\* The names in the directory whose file exists.
Names(dir) == {tag \in DOMAIN dir : dir[tag].exists}

\* glob.has_magic: glob reads a path holding one of * ? [ as a pattern.
HasMagic(name) == \E i \in 1..Len(name) : name[i] \in {CharStar, CharQuestion, CharLBracket}

\* fnmatch.translate, the scan for the ] that closes the [ at pat[1]: a
\* leading ! and then a leading ] are passed over; 0 when none closes it.
RECURSIVE FirstClose(_, _)
FirstClose(pat, j) ==
    IF j > Len(pat) THEN 0
    ELSE IF pat[j] = CharRBracket THEN j
    ELSE FirstClose(pat, j + 1)

ClassEnd(pat) ==
    LET afterBang == IF 2 <= Len(pat) /\ pat[2] = CharBang THEN 3 ELSE 2
        afterClose == IF afterBang <= Len(pat) /\ pat[afterBang] = CharRBracket
                      THEN afterBang + 1 ELSE afterBang
    IN  FirstClose(pat, afterClose)

\* The hyphen fnmatch.translate joins the chunks of a class with: the hyphen
\* of a range, kept apart from a hyphen that stands for itself.
RangeHyphen == -1

\* pat.find('-', k, j): the first hyphen of stuff at or after k; 0 when none.
RECURSIVE FindHyphen(_, _)
FindHyphen(stuff, k) ==
    IF k > Len(stuff) THEN 0
    ELSE IF stuff[k] = CharMinus THEN k
    ELSE FindHyphen(stuff, k + 1)

\* The chunks of stuff, which stands between [ and ]: it is cut at every
\* hyphen found from k on, the search going on two characters after the
\* hyphen found.
RECURSIVE SplitChunks(_, _, _)
SplitChunks(stuff, i, k) ==
    IF FindHyphen(stuff, k) = 0 THEN <<SubSeq(stuff, i, Len(stuff))>>
    ELSE <<SubSeq(stuff, i, FindHyphen(stuff, k) - 1)>>
         \o SplitChunks(stuff, FindHyphen(stuff, k) + 1, FindHyphen(stuff, k) + 3)

\* An empty last chunk is dropped and its hyphen added to the chunk before.
CloseChunks(chunks) ==
    IF Len(chunks) > 1 /\ chunks[Len(chunks)] = <<>>
    THEN [n \in 1..(Len(chunks) - 1) |->
             IF n = Len(chunks) - 1 THEN Append(chunks[n], CharMinus) ELSE chunks[n]]
    ELSE chunks

\* Empty ranges are removed, from the last to the first: where a chunk ends
\* above the start of the next, the two characters go and the chunks merge.
RECURSIVE RemoveEmptyRanges(_, _)
RemoveEmptyRanges(chunks, k) ==
    IF k < 2 THEN chunks
    ELSE IF chunks[k - 1][Len(chunks[k - 1])] > Head(chunks[k])
    THEN RemoveEmptyRanges(
             [n \in 1..(Len(chunks) - 1) |->
                 IF n < k - 1 THEN chunks[n]
                 ELSE IF n = k - 1
                 THEN SubSeq(chunks[k - 1], 1, Len(chunks[k - 1]) - 1) \o Tail(chunks[k])
                 ELSE chunks[n + 1]],
             k - 1)
    ELSE RemoveEmptyRanges(chunks, k - 1)

RECURSIVE JoinChunks(_)
JoinChunks(chunks) ==
    IF Len(chunks) = 1 THEN chunks[1]
    ELSE chunks[1] \o <<RangeHyphen>> \o JoinChunks(Tail(chunks))

\* The class fnmatch.translate writes for stuff, its characters and range
\* hyphens in order.
ClassStuff(stuff) ==
    LET chunks == CloseChunks(SplitChunks(stuff, 1,
                                          IF Head(stuff) = CharBang THEN 3 ELSE 2))
    IN  JoinChunks(RemoveEmptyRanges(chunks, Len(chunks)))

ClassChar(token) == IF token = RangeHyphen THEN CharMinus ELSE token

\* The characters of the class the regular expression reads: a character, a
\* range hyphen and a character are a range; every other one is itself.
RECURSIVE InItems(_, _)
InItems(tokens, c) ==
    IF tokens = <<>> THEN FALSE
    ELSE IF Len(tokens) >= 3 /\ tokens[2] = RangeHyphen
    THEN \/ ClassChar(tokens[1]) <= c /\ c <= ClassChar(tokens[3])
         \/ InItems(SubSeq(tokens, 4, Len(tokens)), c)
    ELSE c = ClassChar(tokens[1]) \/ InItems(Tail(tokens), c)

\* The class matches nothing when no character is left of it; when what is
\* left starts with !, whether stuff did or not, it is the negated class of
\* the rest.
InClass(stuff, c) ==
    LET tokens == ClassStuff(stuff)
    IN  IF tokens = <<>> THEN FALSE
        ELSE IF Head(tokens) = CharBang THEN ~InItems(Tail(tokens), c)
        ELSE InItems(tokens, c)

\* fnmatch: * is any run of characters, ? is any one character, [..] is one
\* character of the class, a [ nothing closes is itself, and so is every
\* other character.  No character quotes another.
RECURSIVE FnMatch(_, _)
FnMatch(pat, name) ==
    IF pat = <<>> THEN name = <<>>
    ELSE IF Head(pat) = CharStar
    THEN \E k \in 0..Len(name) : FnMatch(Tail(pat), SubSeq(name, k + 1, Len(name)))
    ELSE IF Head(pat) = CharQuestion
    THEN name # <<>> /\ FnMatch(Tail(pat), Tail(name))
    ELSE IF Head(pat) = CharLBracket /\ ClassEnd(pat) # 0
    THEN /\ name # <<>>
         /\ InClass(SubSeq(pat, 2, ClassEnd(pat) - 1), Head(name))
         /\ FnMatch(SubSeq(pat, ClassEnd(pat) + 1, Len(pat)), Tail(name))
    ELSE name # <<>> /\ Head(name) = Head(pat) /\ FnMatch(Tail(pat), Tail(name))

\* glob._ishidden
IsHidden(name) == name # <<>> /\ Head(name) = CharDot

\* The directories glob searches for os.path.join(directory, "sd*.csdat"):
\* the directory itself when its name holds no wildcard, otherwise the
\* directories beside it whose names match the name read as a pattern,
\* those that start with a dot left out unless the pattern does.
MatchedDirs(disk_, directory) ==
    IF ~HasMagic(directory) THEN {directory} \cap DOMAIN disk_
    ELSE {d \in DOMAIN disk_ :
             /\ IsHidden(directory) \/ ~IsHidden(d)
             /\ FnMatch(directory, d)}

RECURSIVE Perms(_)
Perms(set) ==
    IF set = {} THEN {<<>>}
    ELSE UNION {{<<first>> \o rest : rest \in Perms(set \ {first})} : first \in set}

\* The orders a directory lists its files in: the file system lists them in
\* any order.
FileOrders(dir) == Perms(Names(dir))

\* The paths glob yields for the directories searched in the order dirs:
\* directory by directory, each path the directory found and the file name.
RECURSIVE PathOrders(_, _)
PathOrders(disk_, dirs) ==
    IF dirs = <<>> THEN {<<>>}
    ELSE UNION {{[i \in 1..Len(files) |-> <<Head(dirs), files[i]>>] \o rest :
                    rest \in PathOrders(disk_, Tail(dirs))} :
                   files \in FileOrders(disk_[Head(dirs)])}

\* The paths glob.glob(os.path.join(directory, "sd*.csdat")) finds.
GlobPaths(disk_, directory) ==
    UNION {{<<d, tag>> : tag \in Names(disk_[d])} : d \in MatchedDirs(disk_, directory)}

\* The lists it can return: the matched directories in every order, the
\* files of each in every order.
Glob(disk_, directory) ==
    UNION {PathOrders(disk_, dirs) : dirs \in Perms(MatchedDirs(disk_, directory))}

\* sectors_data[sector_num] = height_data
Put(dict, key, value) ==
    [k \in DOMAIN dict \cup {key} |-> IF k = key THEN value ELSE dict[k]]

\* What the loop of load_sectors_from_directory computes for one path:
\* int(filename[2:-6]) and, when that is a number, load_single_sector(file_path)
\* with its default grid size.  ok: the name is a number and an array came back.
ReadFile(disk_, file_path) ==
    LET sector_num == ParseInt(file_path[2])
        height_data == load_single_sector(disk_[file_path[1]][file_path[2]], GridSize)
    IN  IF sector_num.ok /\ height_data.ok
        THEN [file_path |-> file_path, ok |-> TRUE, sector_num |-> sector_num.value,
              height_data |-> height_data.array]
        ELSE [file_path |-> file_path, ok |-> FALSE, sector_num |-> 0, height_data |-> <<>>]

\* What it computes for each of the paths: a file is read the same wherever
\* it stands in the list.
ReadFiles(disk_, paths) == {ReadFile(disk_, file_path) : file_path \in paths}

\* The loop of load_sectors_from_directory over the listed files: the array
\* of a file that is ok is stored under its number, over what an earlier
\* file stored there.
RECURSIVE LoadFiles(_, _, _)
LoadFiles(read, files, loaded) ==
    IF files = <<>> THEN loaded
    ELSE LET entry == CHOOSE e \in read : e.file_path = Head(files)
         IN  LoadFiles(read, Tail(files),
                       IF entry.ok THEN Put(loaded, entry.sector_num, entry.height_data)
                       ELSE loaded)

\* load_sectors_from_directory, files being what glob.glob returned.
load_sectors_from_directory(disk_, files) ==
    LoadFiles(ReadFiles(disk_, {files[n] : n \in 1..Len(files)}), files,
              [sector_num \in {} |-> <<>>])

\* What load_sectors_from_directory can return for the directory, over the
\* lists glob.glob can return.
Loadable(disk_, directory) ==
    LET read == ReadFiles(disk_, GlobPaths(disk_, directory))
    IN  {LoadFiles(read, files, [sector_num \in {} |-> <<>>]) :
            files \in Glob(disk_, directory)}

\* -------------------------------------------------------- MosaicAssembler

\* sector_index = sector_row * sectors_x + col, sector_row = sectors_y - 1 - display_row
SectorIndex(display_row, col, sectors_x, sectors_y) ==
    (sectors_y - 1 - display_row) * sectors_x + col

\* The slots of the mosaic: display_row in range(sectors_y), col in range(sectors_x).
Slots(sectors_x, sectors_y) == (0..(sectors_y - 1)) \X (0..(sectors_x - 1))

\* combined_map[start_y:end_y, start_x:end_x] = flipped_sector assigns to a
\* grid_size x grid_size slice; numpy broadcasts the sector to it when each
\* of its two lengths is grid_size or 1.
Broadcasts(sector, grid_size) ==
    /\ NRows(sector) \in {1, grid_size}
    /\ NCols(sector) \in {1, grid_size}
    /\ \A i \in 1..NRows(sector) : Len(sector[i]) = NCols(sector)

\* The assignment raises ValueError for a sector of any other shape.
PlacementRaises(sectors_data, sectors_x, sectors_y, grid_size) ==
    \E slot \in Slots(sectors_x, sectors_y) :
        LET idx == SectorIndex(slot[1], slot[2], sectors_x, sectors_y)
        IN  /\ idx \in DOMAIN sectors_data
            /\ ~Broadcasts(sectors_data[idx], grid_size)

\* The value the assignment stores at row y, column x of the slice: a sector
\* of one row gives that row to every row, a sector of one column gives
\* that column to every column.
BroadcastCell(flipped_sector, y, x) ==
    flipped_sector[IF NRows(flipped_sector) = 1 THEN 1 ELSE y]
                  [IF NCols(flipped_sector) = 1 THEN 1 ELSE x]

\* combined_map after the placement loops: zero where no sector is loaded,
\* the vertically flipped sector in its slot otherwise.
PlacedMap(sectors_data, sectors_x, sectors_y, grid_size) ==
    [r \in 1..(sectors_y * grid_size) |->
        [c \in 1..(sectors_x * grid_size) |->
            LET display_row == (r - 1) \div grid_size
                col == (c - 1) \div grid_size
                idx == SectorIndex(display_row, col, sectors_x, sectors_y)
            IN  IF idx \in DOMAIN sectors_data
                THEN BroadcastCell(FlipUD(sectors_data[idx]),
                                   ((r - 1) % grid_size) + 1, ((c - 1) % grid_size) + 1)
                ELSE FloatZero]]

\* np.rot90(combined_map, k=1) then np.fliplr.
MosaicToDisplay(m) == FlipLR(Rot90CCW(m))

\* create_combined_heightmap; ok = FALSE when the placement raised.
create_combined_heightmap(sectors_data, sectors_x, sectors_y, grid_size) ==
    IF PlacementRaises(sectors_data, sectors_x, sectors_y, grid_size)
    THEN [ok |-> FALSE, map |-> <<>>]
    ELSE [ok |-> TRUE,
          map |-> MosaicToDisplay(PlacedMap(sectors_data, sectors_x, sectors_y, grid_size))]

\* DisplayToMosaic without the mirror between the two rotations.
DisplayToMosaicNoMirror(edited_array) == Rot90CW(Rot90CW(edited_array))

\* The three undo steps of the export: rot90(k=-1), fliplr, rot90(k=-1).
DisplayToMosaic(edited_array) == Rot90CW(FlipLR(Rot90CW(edited_array)))

\* ------------------------------------------------------------- Normalizer

\* The rotation numpy_to_blender_image applies when rotate_texture is set.
RotateTexture(numpy_array) == Rot90CCW(numpy_array)

\* (value - min_val) / (max_val - min_val) if max_val > min_val, else zeros.
Normalize(numpy_array, min_val, max_val) ==
    [i \in 1..NRows(numpy_array) |->
        [j \in 1..Len(numpy_array[i]) |->
            IF FLess(min_val, max_val)
            THEN F64Div(F64Sub(numpy_array[i][j], min_val), F64Sub(max_val, min_val))
            ELSE FloatZero]]

\* min_val = np.min(numpy_array), max_val = np.max(numpy_array)
ImageRange(numpy_array) == <<RMin(Cells(numpy_array)), RMax(Cells(numpy_array))>>

\* rgba_array[:, :, 0] = normalized: the float64 values stored in an array
\* of dtype float32.
StoreFloat32(normalized) ==
    [i \in 1..NRows(normalized) |->
        [j \in 1..Len(normalized[i]) |-> F32(normalized[i][j])]]

\* numpy_to_blender_image(combined_map, rotate_texture=True): the R channel
\* of the image (G and B are copies, A is 1.0).
numpy_to_blender_image(combined_map) ==
    LET numpy_array == RotateTexture(combined_map)
        range == ImageRange(numpy_array)
    IN  StoreFloat32(Normalize(numpy_array, range[1], range[2]))

\* all_heights: every value of every loaded sector.
AllHeights(sectors_data) ==
    UNION {Cells(sectors_data[k]) : k \in DOMAIN sectors_data}

\* original_min = min(all_heights), original_max = max(all_heights)
OriginalRange(sectors_data) ==
    <<RMin(AllHeights(sectors_data)), RMax(AllHeights(sectors_data))>>

\* edited_array * (max - min) + min if max > min, else edited_array * max.
Denormalize(edited_array, original_min, original_max) ==
    [i \in 1..NRows(edited_array) |->
        [j \in 1..Len(edited_array[i]) |->
            IF FLess(original_min, original_max)
            THEN F64Add(F64Mul(edited_array[i][j], F64Sub(original_max, original_min)),
                        original_min)
            ELSE F64Mul(edited_array[i][j], original_max)]]

\* ------------------------------------------------------------------ state

VARIABLES
    disk,               \* directory name -> file name tag -> file
    sectors_data,       \* terrain_data.sectors_data: sector number -> array
    current_directory,  \* terrain_data.current_directory (<<>> is "")
    sectors_x,          \* terrain_data.sectors_x
    sectors_y,          \* terrain_data.sectors_y
    heightmap_image,    \* terrain_data.heightmap_image: [set, pixels]
    op,                 \* the operator that ran last
    result,             \* what it returned, or "EXCEPTION" when it raised
    sectors_written,    \* the export's count of written sectors
    sectors_failed,     \* the export's count of failed sectors
    image_source,       \* the session fields as the import that made the image left them
    steps,              \* operators run so far
    c_pc,               \* codec runs: "input", "decoded", "reencoded", "encoded"
    c_grid_size,        \* codec runs: grid_size
    c_file,             \* codec runs: the sector file
    c_grid,             \* codec runs: the height data to encode
    c_decoded,          \* codec runs: what load_single_sector returned
    c_written,          \* codec runs: what write_sector_to_file returned and left
    m_pc,               \* mosaic runs: "input", "display", "split"
    m_sectors_x,        \* mosaic runs: sectors_x
    m_sectors_y,        \* mosaic runs: sectors_y
    m_sectors,          \* mosaic runs: sector number -> array
    m_display,          \* mosaic runs: the mosaic in display space
    m_split             \* mosaic runs: sector number -> the rows the writer stores

session_vars ==
    <<disk, sectors_data, current_directory, sectors_x, sectors_y,
      heightmap_image, op, result, sectors_written, sectors_failed, image_source, steps>>
codec_vars == <<c_pc, c_grid_size, c_file, c_grid, c_decoded, c_written>>
mosaic_vars == <<m_pc, m_sectors_x, m_sectors_y, m_sectors, m_display, m_split>>
vars == <<session_vars, codec_vars, mosaic_vars>>

\* TerrainEditorData.__init__: sectors_x = sectors_y = 8.
DefaultSectors == 8

EmptyDict == [n \in {} |-> <<>>]
NoImage == [set |-> FALSE, pixels |-> <<>>]

\* ----------------------------------------------------------- sector files

\* Bytes of a sector file of sector n: a header, grid_size^2 cells of a
\* 16-bit sample and 2 payload bytes, and a trailer.
SampleRaw(pattern, n, k, grid_size) ==
    IF pattern = "flat" THEN 128
    ELSE 130 + n * grid_size * grid_size + k + 256 * (k % 2)

SectorBytes(pattern, n, grid_size) ==
    LET cells == grid_size * grid_size
        size == TerrainOffset + 4 * cells + 3
    IN  [i \in 1..size |->
            LET o == i - 1
                k == (o - TerrainOffset) \div 4
            IN  IF o < TerrainOffset THEN (7 * o + n) % 256
                ELSE IF o >= TerrainOffset + 4 * cells THEN (250 + o + n) % 256
                ELSE IF (o - TerrainOffset) % 4 < 2
                     THEN ToBytesLittle(SampleRaw(pattern, n, k, grid_size))[((o - TerrainOffset) % 4) + 1]
                     ELSE (200 + 3 * k + o) % 256]

\* The length a sector file needs: 708 + 4 * grid_size^2.
FullLength(grid_size) == TerrainOffset + 4 * grid_size * grid_size

Kinds == {"missing", "empty", "short", "ragged", "rowcut"}

\* A sector file cut short (or absent).
Damaged(bytes, kind, grid_size) ==
    CASE kind = "missing" -> NoFile
      [] kind = "empty"   -> File(SubSeq(bytes, 1, TerrainOffset))
      [] kind = "short"   -> File(SubSeq(bytes, 1, TerrainOffset - 8))
      [] kind = "ragged"  -> File(SubSeq(bytes, 1, FullLength(grid_size) - 3))
      [] kind = "rowcut"  -> File(SubSeq(bytes, 1, FullLength(grid_size) - 4 * grid_size))
      [] OTHER            -> File(bytes)

Patterns == {"ramp", "flat"}
NumFiles == MaxSectors * MaxSectors + 1

\* A directory name is its characters.  Every directory of the model lies in
\* one parent directory whose path holds no wildcard.
DirNameA == <<CharA>>
DirNameB == <<CharB>>
DirNameClassA == <<CharLBracket, CharA, CharRBracket>>
DirNameAny == <<CharQuestion>>

\* Directory "a": sd0.csdat .. sd<NumFiles-1>.csdat, at most one of them
\* damaged.
DirA(pattern, bad, kind) ==
    [tag \in {Digits(n) : n \in 0..(NumFiles - 1)} |->
        LET n == ParseInt(tag).value
            bytes == SectorBytes(pattern, n, GridSize)
        IN  IF n = bad THEN Damaged(bytes, kind, GridSize) ELSE File(bytes)]

\* A second directory, names int() reads in its wider forms: sd0, sd+1 and
\* sd01 (both sector 1, with different content), sd-1 and sd1_0.  The file
\* of each name holds the samples of the sector number given here.
AliasNames ==
    {<<Digits(0), 0>>, <<<<CharPlus, CharZero + 1>>, 1>>,
     <<<<CharZero, CharZero + 1>>, 2>>, <<<<CharMinus, CharZero + 1>>, 3>>,
     <<<<CharZero + 1, CharUnderscore, CharZero>>, 4>>}

\* A second directory, digits of other scripts and whitespace int() strips:
\* sd<space><Arabic-Indic 2>, sd<Bengali 1>, sd<Thai 0><U+2003> and
\* sd<U+001F>3, which is no number.
CharBengaliZero == 2534
CharThaiZero == 3664
ScriptNames ==
    {<<<<CharSpace, CharArabicZero + 2>>, 5>>, <<<<CharBengaliZero + 1>>, 6>>,
     <<<<CharThaiZero, 8195>>, 7>>, <<<<31, CharZero + 3>>, 8>>}

\* A second directory, names int() rejects: sdx, sd, sd1_ and sd+<space>1.
NoNumberNames ==
    {<<<<CharX>>, 0>>, <<<<>>, 1>>, <<<<CharZero + 1, CharUnderscore>>, 2>>,
     <<<<CharPlus, CharSpace, CharZero + 1>>, 3>>}

\* A second directory, three files of sector 1: sd1, sd01 and sd001.
DuplicateNames ==
    {<<Digits(1), 5>>, <<<<CharZero, CharZero + 1>>, 6>>,
     <<<<CharZero, CharZero, CharZero + 1>>, 7>>}

\* A second directory of two sectors: sd0 and sd1.
PlainNames == {<<Digits(0), 5>>, <<Digits(1), 6>>}

DirB(names) ==
    [tag \in {e[1] : e \in names} |->
        File(SectorBytes("ramp", (CHOOSE e \in names : e[1] = tag)[2], GridSize))]

\* The directories a session starts with, "a" beside a second one: "a" whole
\* or with one damaged file beside "b" without a number; a whole "a" beside
\* "b" of wider names, of other scripts or of three files of one sector; and
\* a whole "a" beside a directory whose name glob reads as a pattern, "[a]"
\* (which matches "a" alone) or "?" (which matches both); and "a" without
\* sd0.csdat beside "[a]".
Scenarios ==
    {[pattern |-> p, bad |-> -1, kind |-> "missing", other |-> DirNameB,
      names |-> NoNumberNames] : p \in Patterns}
    \cup {[pattern |-> "ramp", bad |-> n, kind |-> k, other |-> DirNameB,
           names |-> NoNumberNames] : n \in 0..(NumFiles - 1), k \in Kinds}
    \cup {[pattern |-> "ramp", bad |-> -1, kind |-> "missing", other |-> DirNameB,
           names |-> ns] : ns \in {AliasNames, ScriptNames, DuplicateNames}}
    \cup {[pattern |-> "ramp", bad |-> -1, kind |-> "missing", other |-> d,
           names |-> PlainNames] : d \in {DirNameClassA, DirNameAny}}
    \cup {[pattern |-> "ramp", bad |-> 0, kind |-> "missing", other |-> DirNameClassA,
           names |-> PlainNames]}

CodecIdle ==
    /\ c_pc = "off"
    /\ c_grid_size = 0
    /\ c_file = NoFile
    /\ c_grid = <<>>
    /\ c_decoded = [ok |-> FALSE, array |-> <<>>]
    /\ c_written = [ok |-> FALSE, file |-> NoFile]

\* TerrainEditorData.__init__
SessionNew ==
    /\ sectors_data = EmptyDict
    /\ current_directory = <<>>
    /\ sectors_x = DefaultSectors
    /\ sectors_y = DefaultSectors
    /\ heightmap_image = NoImage
    /\ op = "none"
    /\ result = "none"
    /\ sectors_written = 0
    /\ sectors_failed = 0
    /\ image_source = [directory |-> <<>>, sectors_x |-> 0, sectors_y |-> 0,
                       sectors_data |-> EmptyDict]
    /\ steps = 0

MosaicIdle ==
    /\ m_pc = "off"
    /\ m_sectors_x = 0
    /\ m_sectors_y = 0
    /\ m_sectors = EmptyDict
    /\ m_display = <<>>
    /\ m_split = EmptyDict

Init ==
    /\ \E sc \in Scenarios :
          disk = [d \in {DirNameA, sc.other} |->
                     IF d = DirNameA THEN DirA(sc.pattern, sc.bad, sc.kind)
                     ELSE DirB(sc.names)]
    /\ SessionNew
    /\ CodecIdle
    /\ MosaicIdle

\* ---------------------------------------------------------------- session

\* TERRAIN_OT_import.execute, loaded being what load_sectors_from_directory
\* returned for the list glob.glob gave it.  The settings and the loaded sectors are stored first; the
\* operator then returns CANCELLED when nothing was loaded, raises when
\* create_combined_heightmap raises, and otherwise sets the image.
Import(directory, sx, sy, loaded) ==
    LET combined == create_combined_heightmap(sectors_data', sx, sy, GridSize)
        outcome == IF DOMAIN sectors_data' = {} THEN "CANCELLED"
                   ELSE IF ~combined.ok THEN "EXCEPTION"
                   ELSE "FINISHED"
    IN  /\ steps < MaxSteps
        /\ steps' = steps + 1
        /\ current_directory' = directory
        /\ sectors_x' = sx
        /\ sectors_y' = sy
        /\ sectors_data' = loaded
        /\ op' = "import"
        /\ result' = outcome
        /\ heightmap_image' =
              IF outcome = "FINISHED"
              THEN [set |-> TRUE, pixels |-> numpy_to_blender_image(combined.map)]
              ELSE heightmap_image
        /\ image_source' =
              IF outcome = "FINISHED"
              THEN [directory |-> directory, sectors_x |-> sx, sectors_y |-> sy,
                    sectors_data |-> sectors_data']
              ELSE image_source
        /\ UNCHANGED <<disk, sectors_written, sectors_failed, codec_vars,
                       mosaic_vars>>

\* The values a painted pixel takes: black, mid grey, white.
PaintValues == {FloatZero, Dyadic(1, -1), Dyadic(1, 0)}

\* The user paints one pixel of the image in the host's texture paint mode.
Paint(r, c, value) ==
    /\ steps < MaxSteps
    /\ heightmap_image.set
    /\ r \in 1..NRows(heightmap_image.pixels)
    /\ c \in 1..NCols(heightmap_image.pixels)
    /\ steps' = steps + 1
    /\ heightmap_image' =
          [heightmap_image EXCEPT !.pixels = [@ EXCEPT ![r] = [@ EXCEPT ![c] = value]]]
    /\ op' = "paint"
    /\ result' = "FINISHED"
    /\ UNCHANGED <<disk, sectors_data, current_directory, sectors_x, sectors_y,
                   sectors_written, sectors_failed, image_source, codec_vars, mosaic_vars>>

\* blender_image_to_numpy: the R channel as a height x width array.
blender_image_to_numpy(image) == image.pixels

\* The sector data the export cuts out of the denormalised mosaic for a slot.
SlotData(denormalized, display_row, col, grid_size) ==
    Slice2D(denormalized, display_row * grid_size, display_row * grid_size + grid_size,
            col * grid_size, col * grid_size + grid_size)

\* The export's denormalised mosaic in sector layout.
ExportMosaic(image, sectors) ==
    LET edited_array == DisplayToMosaic(blender_image_to_numpy(image))
        range == OriginalRange(sectors)
    IN  Denormalize(edited_array, range[1], range[2])

\* os.path.exists(file_path)
Exists(dir, tag) == tag \in DOMAIN dir /\ dir[tag].exists

\* The directory after the export's loop over the slots: every slot whose
\* file exists is handed to write_sector_to_file.
ExportedDir(dir, denormalized, sx, sy, grid_size) ==
    [tag \in DOMAIN dir |->
        IF \E slot \in Slots(sx, sy) :
              Digits(SectorIndex(slot[1], slot[2], sx, sy)) = tag
        THEN LET slot == CHOOSE sl \in Slots(sx, sy) :
                            Digits(SectorIndex(sl[1], sl[2], sx, sy)) = tag
             IN  write_sector_to_file(dir[tag],
                     SlotData(denormalized, slot[1], slot[2], grid_size), grid_size).file
        ELSE dir[tag]]

\* The slots whose file exists and whose write returned ok.
SlotsWritten(dir, denormalized, sx, sy, grid_size, ok) ==
    {slot \in Slots(sx, sy) :
        LET tag == Digits(SectorIndex(slot[1], slot[2], sx, sy))
        IN  /\ Exists(dir, tag)
            /\ write_sector_to_file(dir[tag],
                   SlotData(denormalized, slot[1], slot[2], grid_size), grid_size).ok = ok}

\* TERRAIN_OT_export.execute.  CANCELLED without an image or a directory;
\* min() of no heights raises; otherwise every existing slot file is written.
Export ==
    LET guards == heightmap_image.set /\ current_directory # <<>>
        raises == guards /\ AllHeights(sectors_data) = {}
        dir == disk[current_directory]
        denormalized == ExportMosaic(heightmap_image, sectors_data)
    IN  /\ steps < MaxSteps
        /\ steps' = steps + 1
        /\ op' = "export"
        /\ result' = IF ~guards THEN "CANCELLED"
                     ELSE IF raises THEN "EXCEPTION" ELSE "FINISHED"
        /\ IF guards /\ ~raises
           THEN /\ disk' = [disk EXCEPT ![current_directory] =
                               ExportedDir(dir, denormalized, sectors_x, sectors_y, GridSize)]
                /\ sectors_written' =
                      Cardinality(SlotsWritten(dir, denormalized, sectors_x, sectors_y,
                                               GridSize, TRUE))
                /\ sectors_failed' =
                      Cardinality(SlotsWritten(dir, denormalized, sectors_x, sectors_y,
                                               GridSize, FALSE))
           ELSE UNCHANGED <<disk, sectors_written, sectors_failed>>
        /\ UNCHANGED <<sectors_data, current_directory, sectors_x, sectors_y,
                       heightmap_image, image_source, codec_vars, mosaic_vars>>

Next ==
    \/ \E directory \in DOMAIN disk :
          \E loaded \in Loadable(disk, directory) :
             \E sx \in 1..MaxSectors, sy \in 1..MaxSectors :
                Import(directory, sx, sy, loaded)
    \/ \E r \in 1..PaintSpan, c \in 1..PaintSpan, value \in PaintValues :
          Paint(r, c, value)
    \/ Export

Spec == Init /\ [][Next]_vars

\* ------------------------------------------------------------- codec runs
\* load_single_sector and write_sector_to_file applied on their own to one
\* sector file, for every grid size up to MaxCodecGrid.

\* Heights handed to the writer: negative, zero, 1.5/128, 1.0, 191.5/128 and
\* a value whose sample exceeds 65535.
CodecHeights ==
    {Dyadic(-1, 0), FloatZero, Dyadic(3, -8), Dyadic(1, 0), Dyadic(383, -8), Dyadic(600, 0)}

\* grid_size x grid_size arrays: two heights alternating over the cells, and
\* the array of grid_size empty rows.
CodecGrids(grid_size) ==
    {[y \in 1..grid_size |-> [x \in 1..grid_size |->
         IF ((y - 1) * grid_size + x) % 2 = 1 THEN a ELSE b]] :
         a \in CodecHeights, b \in CodecHeights}
    \cup {[y \in 1..grid_size |-> <<>>]}

\* Sector files: full with a trailer, full without one, cut short, absent.
CodecFiles(grid_size) ==
    {Damaged(SectorBytes(pattern, 1, grid_size), kind, grid_size) :
         pattern \in Patterns, kind \in Kinds \cup {"whole"}}
    \cup {File(SubSeq(SectorBytes(pattern, 1, grid_size), 1, FullLength(grid_size))) :
         pattern \in Patterns}

SessionIdle ==
    /\ disk = [d \in {DirNameA, DirNameB} |-> [tag \in {} |-> NoFile]]
    /\ SessionNew

CodecInit ==
    /\ c_grid_size \in 1..MaxCodecGrid
    /\ c_file \in CodecFiles(c_grid_size)
    /\ c_grid \in CodecGrids(c_grid_size)
    /\ c_pc = "input"
    /\ c_decoded = [ok |-> FALSE, array |-> <<>>]
    /\ c_written = [ok |-> FALSE, file |-> NoFile]
    /\ SessionIdle
    /\ MosaicIdle

\* height_array = load_single_sector(file_path, grid_size)
CodecDecode ==
    /\ c_pc = "input"
    /\ c_pc' = "decoded"
    /\ c_decoded' = load_single_sector(c_file, c_grid_size)
    /\ UNCHANGED <<c_grid_size, c_file, c_grid, c_written, session_vars, mosaic_vars>>

\* write_sector_to_file(file_path, height_data, grid_size) on given heights.
CodecEncode ==
    /\ c_pc = "input"
    /\ c_pc' = "encoded"
    /\ c_written' = write_sector_to_file(c_file, c_grid, c_grid_size)
    /\ UNCHANGED <<c_grid_size, c_file, c_grid, c_decoded, session_vars, mosaic_vars>>

\* write_sector_to_file applied to what load_single_sector returned for the
\* same file; np.flipud(None) raises, so a None is a failed write.
CodecReencode ==
    /\ c_pc = "decoded"
    /\ c_pc' = "reencoded"
    /\ c_written' = IF c_decoded.ok
                    THEN write_sector_to_file(c_file, c_decoded.array, c_grid_size)
                    ELSE [ok |-> FALSE, file |-> c_file]
    /\ UNCHANGED <<c_grid_size, c_file, c_grid, c_decoded, session_vars, mosaic_vars>>

CodecNext == CodecDecode \/ CodecEncode \/ CodecReencode

SpecCodec == CodecInit /\ [][CodecNext]_vars

\* ------------------------------------------------------------ mosaic runs
\* The import's transform of a sector map into the display array and the
\* export's transform of the display array back into per-sector rows.

\* The array load_single_sector returns for sector n of the ramp pattern,
\* shifted by offset raw units.
RampSector(n, offset, grid_size) ==
    [y \in 1..grid_size |-> [x \in 1..grid_size |->
        F64Div(FloatOfInt(SampleRaw("ramp", n, (y - 1) * grid_size + (x - 1), grid_size)
                          + offset),
               FloatOfInt(HeightScale))]]

MosaicInit ==
    /\ m_sectors_x \in 1..MaxSectors
    /\ m_sectors_y \in 1..MaxSectors
    /\ \E missing \in -1..(m_sectors_x * m_sectors_y - 1), extra \in BOOLEAN,
          offset \in {0, 7} :
          m_sectors =
              [n \in ((0..(m_sectors_x * m_sectors_y - 1)) \ {missing})
                     \cup (IF extra THEN {m_sectors_x * m_sectors_y} ELSE {}) |->
                  RampSector(n, offset, GridSize)]
    /\ m_pc = "input"
    /\ m_display = <<>>
    /\ m_split = EmptyDict
    /\ SessionIdle
    /\ CodecIdle

\* Import: create_combined_heightmap, then the display rotation of
\* numpy_to_blender_image.
MosaicImport ==
    /\ m_pc = "input"
    /\ m_pc' = "display"
    /\ m_display' = RotateTexture(
           create_combined_heightmap(m_sectors, m_sectors_x, m_sectors_y, GridSize).map)
    /\ UNCHANGED <<m_sectors_x, m_sectors_y, m_sectors, m_split, session_vars, codec_vars>>

\* Export: the three undo steps, the block of every slot, and the writer's
\* vertical flip: the rows write_sector_to_file stores for each slot's sector.
MosaicExport ==
    /\ m_pc = "display"
    /\ m_pc' = "split"
    /\ m_split' =
          [idx \in {SectorIndex(slot[1], slot[2], m_sectors_x, m_sectors_y) :
                       slot \in Slots(m_sectors_x, m_sectors_y)} |->
              LET slot == CHOOSE sl \in Slots(m_sectors_x, m_sectors_y) :
                              SectorIndex(sl[1], sl[2], m_sectors_x, m_sectors_y) = idx
              IN  WriterRows(SlotData(DisplayToMosaic(m_display), slot[1], slot[2], GridSize))]
    /\ UNCHANGED <<m_sectors_x, m_sectors_y, m_sectors, m_display, session_vars, codec_vars>>

MosaicNext == MosaicImport \/ MosaicExport

SpecMosaic == MosaicInit /\ [][MosaicNext]_vars

\* ----------------------------------------------------------------- claims

\* Is offset o one of the two sample bytes of a cell of the elevation region?
IsSampleOffset(o, grid_size) ==
    /\ o >= TerrainOffset
    /\ o < FullLength(grid_size)
    /\ (o - TerrainOffset) % 4 < 2

\* Is m a grid_size x grid_size array?
IsGrid(m, grid_size) ==
    /\ Len(m) = grid_size
    /\ \A i \in 1..grid_size : Len(m[i]) = grid_size

\* C1 as stated: writing what load_single_sector decoded from a buffer of at
\* least 708 + 4*g*g bytes back onto it leaves the buffer byte for byte equal.
C1_RoundTripIsIdentity ==
    (/\ c_pc = "reencoded"
     /\ c_file.exists
     /\ Len(c_file.bytes) >= FullLength(c_grid_size))
    => (c_written.ok /\ c_written.file = c_file)

\* C2: writing a g x g grid to a file of at least 708 + 4*g*g bytes keeps the
\* file's length and every byte that is not one of the two sample bytes of a
\* cell (header, per-cell payload, trailer).
C2_EncodePreservesOpaqueBytes ==
    (/\ c_pc = "encoded"
     /\ c_file.exists
     /\ Len(c_file.bytes) >= FullLength(c_grid_size)
     /\ IsGrid(c_grid, c_grid_size))
    => /\ c_written.file.exists
       /\ Len(c_written.file.bytes) = Len(c_file.bytes)
       /\ \A o \in 0..(Len(c_file.bytes) - 1) :
             ~IsSampleOffset(o, c_grid_size)
                 => c_written.file.bytes[o + 1] = c_file.bytes[o + 1]

\* A grid was written into a file that has a trailer, and samples changed.
C2_Witness ==
    /\ c_pc = "encoded"
    /\ Len(c_file.bytes) > FullLength(c_grid_size)
    /\ IsGrid(c_grid, c_grid_size)
    /\ c_written.ok
    /\ c_written.file # c_file

\* C6 as stated: a write to a file shorter than 708 + 4*g*g bytes fails and
\* leaves the file as it was.
C6_TooSmallFileIsRejected ==
    (/\ c_pc = "encoded"
     /\ c_file.exists
     /\ Len(c_file.bytes) < FullLength(c_grid_size))
    => (~c_written.ok /\ c_written.file = c_file)

\* floor(a + 1/2) of a float, halves upward, as an int [neg, mag]; the
\* clamp takes every negative to 0.
RoundNearest(a) == PyInt(ExactAdd(a, Dyadic(1, -1)))

\* C8 as stated: the sample stored for a grid value v is round(v * 128)
\* clamped to 0..65535, little-endian.
C8_EncodeRoundsToNearest ==
    (/\ c_pc = "encoded"
     /\ c_file.exists
     /\ Len(c_file.bytes) >= FullLength(c_grid_size)
     /\ IsGrid(c_grid, c_grid_size))
    => \A y \in 0..(c_grid_size - 1), x \in 0..(c_grid_size - 1) :
          LET v == WriterRows(c_grid)[y + 1][x + 1]
              want == Clamp(RoundNearest(ExactMul(v, FloatOfInt(HeightScale))), MaxSample)
              pos == CellPos(y, x, c_grid_size)
          IN  /\ c_written.file.bytes[pos + 1] = want % 256
              /\ c_written.file.bytes[pos + 2] = want \div 256

\* C3: the export transform undoes the import transform: for every sector of
\* the map with an index in 0..sectors_x*sectors_y-1 the rows the writer
\* stores are that sector's rows, for square and non-square mosaics.
C3_MosaicTransformInverts ==
    (m_pc = "split")
    => \A idx \in DOMAIN m_sectors :
          idx < m_sectors_x * m_sectors_y => m_split[idx] = m_sectors[idx]

\* A non-square mosaic with every slot filled went through both transforms.
C3_Witness ==
    /\ m_pc = "split"
    /\ m_sectors_x # m_sectors_y
    /\ \A idx \in 0..(m_sectors_x * m_sectors_y - 1) :
          idx \in DOMAIN m_sectors /\ m_split[idx] = m_sectors[idx]

\* The export's guards pass: an image and a directory are set.
ExportGuardsPass == heightmap_image.set /\ current_directory # <<>>

\* The session fields are as the import that made the image left them.
SessionMatchesImage ==
    image_source = [directory |-> current_directory, sectors_x |-> sectors_x,
                    sectors_y |-> sectors_y, sectors_data |-> sectors_data]

\* Every file sd0..sd<sectors_x*sectors_y-1> of the directory is there in full
\* length and every file of the directory holds the one sample value 128.
FlatDirectory(dir, sx, sy) ==
    /\ \A n \in 0..(sx * sy - 1) : Exists(dir, Digits(n))
    /\ \A tag \in DOMAIN dir :
          /\ dir[tag].exists
          /\ Len(dir[tag].bytes) >= FullLength(GridSize)
          /\ Cells(load_single_sector(dir[tag], GridSize).array) = {Dyadic(1, 0)}

AllZero(pixels) == Cells(pixels) = {FloatZero}

\* C4 as stated: with every sector file present in full length and every
\* sample equal (128), exporting the unedited all-zero image after the import
\* leaves every sector file as it was.
C4_FlatUneditedExportKeepsFiles ==
    [][(/\ op' = "export"
        /\ steps' = steps + 1
        /\ ExportGuardsPass
        /\ SessionMatchesImage
        /\ AllZero(heightmap_image.pixels)
        /\ FlatDirectory(disk[current_directory], sectors_x, sectors_y))
       => disk' = disk]_vars

\* The paths glob finds for the directory whose name is a sector number no
\* other of them gives and whose file is shorter than 708 + 4 * grid_size^2.
TruncatedTags(disk_, directory) ==
    {file_path \in GlobPaths(disk_, directory) :
        /\ ParseInt(file_path[2]).ok
        /\ Len(disk_[file_path[1]][file_path[2]].bytes) < FullLength(GridSize)
        /\ \A other \in GlobPaths(disk_, directory) \ {file_path} :
              ~(/\ ParseInt(other[2]).ok
                /\ ParseInt(other[2]).value = ParseInt(file_path[2]).value)}

\* C5 as stated: after an import, a truncated sector file (cut anywhere) is
\* not among the loaded sectors and did not make the import raise.
C5_TruncatedSectorIsSoftFailure ==
    (op = "import")
    => \A file_path \in TruncatedTags(disk, current_directory) :
          /\ ParseInt(file_path[2]).value \notin DOMAIN sectors_data
          /\ result # "EXCEPTION"

\* C7 as stated: an export leaves every file whose sector is not in the
\* loaded sector set as it was.
C7_UnloadedSectorFilesUntouched ==
    [][(/\ op' = "export"
        /\ steps' = steps + 1
        /\ current_directory \in DOMAIN disk)
       => \A tag \in DOMAIN disk[current_directory] :
             (~ParseInt(tag).ok \/ ParseInt(tag).value \notin DOMAIN sectors_data)
                 => disk'[current_directory][tag] = disk[current_directory][tag]]_vars

\* C9 as stated: after a finished import, the (min, max) the image was
\* normalised with equals the (min, max) the export denormalises with.
C9_NormalisationRangesAgree ==
    (/\ op = "import"
     /\ result = "FINISHED"
     /\ AllHeights(sectors_data) # {})
    => ImageRange(RotateTexture(
           create_combined_heightmap(sectors_data, sectors_x, sectors_y, GridSize).map))
       = OriginalRange(sectors_data)

\* C10 as stated: whenever the export's guards pass, sectors are loaded and
\* the session fields are those of the import that made the image.
C10_SessionMatchesImageAtExport ==
    ExportGuardsPass => (DOMAIN sectors_data # {} /\ SessionMatchesImage)

====
